---- MODULE Spec2Model ----
(***************************************************************************)
(* The Star Wars character browser of 04-advanced-react/4c-next/readme.md: *)
(* the Home page (fetchPeople / Home, lines 151-177) and the Character     *)
(* page (Character, lines 201-244), with the SWAPI endpoint as a mock.     *)
(*                                                                         *)
(* URLs, route ids and hrefs are sequences of one-character strings, so    *)
(* that url.split('/')[5] and the template literals are computed.  Facts   *)
(* are strings built by concatenation.                                     *)
(*                                                                         *)
(* The route id is taken as what `const { id } = router.query` yields: a   *)
(* string, or undefined before the router has the parameter.  The listing  *)
(* imports useParams but calls useRouter (lines 197, 202); the model       *)
(* follows the call.                                                       *)
(*                                                                         *)
(* React commits a render before it runs the render's effects.  The JSX of *)
(* lines 231-243 reads character.name, which throws while character is     *)
(* null, as it is on every mount.  Taken literally nothing after the first *)
(* render would be reachable; the model records the throw in lastRender    *)
(* and lets the commit proceed, so that the effect and the handler are     *)
(* checked as they are written.                                            *)
(***************************************************************************)
EXTENDS Integers, Sequences, FiniteSets, TLC

VARIABLES route, homeStatus, people, homeLinks,
          id, character, randomFact, deps, lastRender, inflight,
          lastBody, mountRejected, lastEvent

vars == <<route, homeStatus, people, homeLinks,
          id, character, randomFact, deps, lastRender, inflight,
          lastBody, mountRejected, lastEvent>>

homeVars == <<homeStatus, people, homeLinks>>
characterVars == <<id, character, randomFact, deps, lastRender, lastBody, mountRejected>>

(* ---------------------------- bounds ----------------------------------- *)

\* longest data.results the mock list endpoint returns
MaxResults == 2
\* most requests of the Character page outstanding at once
MaxInflight == 2

(* ------------------------ JavaScript values ---------------------------- *)

\* undefined, where a sequence of characters is expected
Undefined == <<"undefined">>
\* null, where a record is expected
Null == [null |-> TRUE]
\* what a template literal prints for undefined
UndefinedText == <<"u", "n", "d", "e", "f", "i", "n", "e", "d">>
\* what a template literal prints for undefined, inside a fact
UndefinedFact == "undefined"

\* `${v}` for a sequence of characters or undefined
Interp(v) == IF v = Undefined THEN UndefinedText ELSE v

\* if (v): undefined and the empty string are falsy
Truthy(v) == v # Undefined /\ v # <<>>

\* arr[i] with JavaScript's zero-based index; out of range is undef
At(arr, i, undef) == IF i + 1 \in DOMAIN arr THEN arr[i + 1] ELSE undef

\* s.split(sep) for a one-character separator
RECURSIVE Split(_, _)
Split(s, sep) ==
  IF s = <<>> THEN << <<>> >>
  ELSE LET rest == Split(Tail(s), sep)
       IN  IF Head(s) = sep
           THEN << <<>> >> \o rest
           ELSE << <<Head(s)>> \o Head(rest) >> \o Tail(rest)

(* --------------------------- the SWAPI mock ---------------------------- *)

\* 'https://swapi.dev/api/people/'
PeopleEndpoint ==
  <<"h", "t", "t", "p", "s", ":", "/", "/", "s", "w", "a", "p", "i", ".",
    "d", "e", "v", "/", "a", "p", "i", "/", "p", "e", "o", "p", "l", "e", "/">>

\* the self-referential url SWAPI puts in each item
SelfUrl(pid) == PeopleEndpoint \o pid \o <<"/">>

Luke ==
  [name |-> "Luke Skywalker", height |-> "172", mass |-> "77",
   hair_color |-> "blond", skin_color |-> "fair", eye_color |-> "blue",
   birth_year |-> "19BBY", gender |-> "male",
   films |-> <<"films/1", "films/2", "films/3", "films/6">>,
   url |-> SelfUrl(<<"1">>)]

Leia ==
  [name |-> "Leia Organa", height |-> "150", mass |-> "49",
   hair_color |-> "brown", skin_color |-> "light", eye_color |-> "brown",
   birth_year |-> "19BBY", gender |-> "female",
   films |-> <<"films/1", "films/2", "films/3", "films/5", "films/6">>,
   url |-> SelfUrl(<<"5">>)]

ObiWan ==
  [name |-> "Obi-Wan Kenobi", height |-> "182", mass |-> "77",
   hair_color |-> "auburn, white", skin_color |-> "fair",
   eye_color |-> "blue-gray", birth_year |-> "57BBY", gender |-> "male",
   films |-> <<"films/1", "films/2", "films/3", "films/4", "films/5", "films/6">>,
   url |-> SelfUrl(<<"1", "0">>)]

\* the people the mock API knows
Catalogue == {Luke, Leia, ObiWan}

\* the body SWAPI sends for an id it does not know (status 404, valid JSON)
NotFound == [detail |-> "Not found"]

\* the ids a route /character/<id> is visited with: two known, one unknown
RouteIds == {<<"1">>, <<"1", "0">>, <<"9", "9">>}

\* true of a body that is a Character of section 3 of the data model
IsCharacter(c) == c \in Catalogue

(* ----------------------------- Home page ------------------------------- *)

\* the ids of the people the mock API knows
KnownIds == {<<"1">>, <<"5">>, <<"1", "0">>}

\* the catalogue entry with a given id
Person(pid) == CHOOSE c \in Catalogue : c.url = SelfUrl(pid)

\* sequences over S of length at most n
SeqUpTo(S, n) == UNION {[1..k -> S] : k \in 0..n}

\* the JSON bodies the list endpoint answers with
ListResponses == {[results |-> r] : r \in SeqUpTo(Catalogue, MaxResults)}

\* fetchPeople: return data.results
FetchPeople(data) == data.results


\* person.url.split('/')[4]: the index one short
PersonId_OneShort(url) == At(Split(url, "/"), 4, Undefined)

\* person.url.split('/')[5]
PersonId(url) == At(Split(url, "/"), 5, Undefined)

\* `/character/${...}`
CharacterHref(seg) ==
  <<"/", "c", "h", "a", "r", "a", "c", "t", "e", "r", "/">> \o Interp(seg)

\* people.map(person => <li key=...><Link href=...>{person.name}</Link></li>)
HomeRender(ps) ==
  [n \in 1..Len(ps) |->
     [key  |-> ps[n].url,
      href |-> CharacterHref(PersonId(ps[n].url)),
      text |-> ps[n].name]]

(* --------------------------- Character page ---------------------------- *)


\* the request url with the id of the first character written in
ApiPeopleUrl_FixedId(i) == PeopleEndpoint \o <<"1">>

\* `https://swapi.dev/api/people/${id}`
ApiPeopleUrl(i) == PeopleEndpoint \o Interp(i)

\* every url a request of the Character page can carry
RequestUrls ==
  {PeopleEndpoint} \cup {PeopleEndpoint \o Interp(i) : i \in RouteIds \cup {Undefined}}

\* a request is its url and whether the component that issued it is still mounted
RequestKinds == [url : RequestUrls, live : BOOLEAN]

Req(u, l) == [url |-> u, live |-> l]

\* the number of outstanding requests
Outstanding(reqs) ==
  LET RECURSIVE Sum(_)
      Sum(S) == IF S = {} THEN 0
                ELSE LET r == CHOOSE q \in S : TRUE IN reqs[r] + Sum(S \ {r})
  IN  Sum(RequestKinds)

\* fetch(url): one more outstanding request of the mounted component
Issue(reqs, u) == [reqs EXCEPT ![Req(u, TRUE)] = @ + 1]

\* a request settles and leaves the outstanding ones
Settle(reqs, k) == [reqs EXCEPT ![k] = @ - 1]

\* unmounting cancels nothing: the component's requests stay outstanding
Orphan(reqs) ==
  [k \in RequestKinds |->
     IF k.live THEN 0 ELSE reqs[k] + reqs[Req(k.url, TRUE)]]

\* the JSON body the per-id endpoint answers with
ResponseBody(u) ==
  IF \E p \in KnownIds : u = PeopleEndpoint \o p
  THEN Person(CHOOSE p \in KnownIds : u = PeopleEndpoint \o p)
  ELSE NotFound

\* the dependency array before the first commit of a mount
NoDeps == <<>>


\* useEffect without its dependency array: the effect runs after every render
EffectFires_EveryRender(prev, next) == TRUE

\* useEffect(..., [id]): the effect runs when the dependencies changed
EffectFires(prev, next) == prev # next

\* the effect body: if (id) { fetchCharacter() }
RunEffect(prev, i, reqs) ==
  IF EffectFires(prev, <<i>>) /\ Truthy(i) THEN Issue(reqs, ApiPeopleUrl(i)) ELSE reqs

\* the JSX of the Character page reads character.name
RenderOutcome(c) == IF c = Null THEN "TypeError" ELSE "ok"


\* setCharacter(character): the response is dropped
SetCharacter_KeepsOld(c, data) == c

\* setCharacter(data)
SetCharacter(c, data) == data


\* a catch block that clears the character
RejectedCharacter_Cleared(c) == Null

\* a rejected fetchCharacter() never reaches setCharacter
RejectedCharacter(c) == c

\* the facts array cannot be built: character.films is undefined
FactsThrows(c) == "films" \notin DOMAIN c


\* the facts array with the height sentence built from mass
Facts_MassForHeight(c) ==
  << c.name \o " appeared in " \o ToString(Len(c.films)) \o " films.",
     c.name \o " is " \o c.mass \o "cm tall.",
     c.name \o " has " \o c.eye_color \o " eyes.",
     c.name \o "'s birth year is " \o c.birth_year \o "." >>

\* the facts array of fetchRandomFact
Facts(c) ==
  << c.name \o " appeared in " \o ToString(Len(c.films)) \o " films.",
     c.name \o " is " \o c.height \o "cm tall.",
     c.name \o " has " \o c.eye_color \o " eyes.",
     c.name \o "'s birth year is " \o c.birth_year \o "." >>


\* Math.round in place of Math.floor: the index can be n
RandomIndices_Round(n) == 0..n

\* Math.floor(Math.random() * n), Math.random() in [0, 1)
RandomIndices(n) == 0..(n - 1)

Event(op, at) == [op |-> op, at |-> at]

(* ------------------------------ routes --------------------------------- *)

HomeRoute == "/"
CharacterRoute == "/character/[id]"
StaticRoutes == {"/about", "/contact"}

mounted == route = CharacterRoute

\* the Character component's state and hooks once it is gone
CharacterGone ==
  /\ id' = Undefined
  /\ character' = Null
  /\ randomFact' = ""
  /\ deps' = NoDeps
  /\ lastRender' = "none"
  /\ lastBody' = Null
  /\ mountRejected' = FALSE
  /\ inflight' = Orphan(inflight)

\* the Home page's render once it is gone
HomeGone ==
  /\ homeStatus' = "idle"
  /\ people' = <<>>
  /\ homeLinks' = <<>>

\* a render of Character with the given state, its commit and its effect
Commit(prev, i, c, f, reqs) ==
  /\ id' = i
  /\ character' = c
  /\ randomFact' = f
  /\ lastRender' = RenderOutcome(c)
  /\ deps' = <<i>>
  /\ inflight' = RunEffect(prev, i, reqs)

Init ==
  /\ route \in StaticRoutes
  /\ homeStatus = "idle"
  /\ people = <<>>
  /\ homeLinks = <<>>
  /\ id = Undefined
  /\ character = Null
  /\ randomFact = ""
  /\ deps = NoDeps
  /\ lastRender = "none"
  /\ inflight = [k \in RequestKinds |-> 0]
  /\ lastBody = Null
  /\ mountRejected = FALSE
  /\ lastEvent = Event("Init", "none")

(* ------------------------------ actions -------------------------------- *)

\* a Navbar link to About or Contact
NavigateStatic(r) ==
  /\ r \in StaticRoutes
  /\ route' = r
  /\ HomeGone
  /\ CharacterGone
  /\ lastEvent' = Event("NavigateStatic", "none")

\* a visit of "/": Home awaits fetchPeople()
NavigateHome ==
  /\ route' = HomeRoute
  /\ homeStatus' = "pending"
  /\ people' = <<>>
  /\ homeLinks' = <<>>
  /\ CharacterGone
  /\ lastEvent' = Event("NavigateHome", "none")

\* the list request and response.json() resolve: Home returns its JSX
HomeResolve(data) ==
  /\ route = HomeRoute
  /\ homeStatus = "pending"
  /\ homeStatus' = "rendered"
  /\ people' = FetchPeople(data)
  /\ homeLinks' = HomeRender(FetchPeople(data))
  /\ lastEvent' = Event("HomeResolve", "none")
  /\ UNCHANGED <<route, characterVars, inflight>>

\* fetch (at = "fetch") or response.json() (at = "json") rejects in fetchPeople
HomeReject(at) ==
  /\ route = HomeRoute
  /\ homeStatus = "pending"
  /\ homeStatus' = "rejected"
  /\ lastEvent' = Event("HomeReject", at)
  /\ UNCHANGED <<route, people, homeLinks, characterVars, inflight>>

\* a visit of /character/<i> from another page: mount, first render, effect
Mount(i) ==
  /\ ~mounted
  /\ Outstanding(inflight) < MaxInflight
  /\ route' = CharacterRoute
  /\ HomeGone
  /\ Commit(NoDeps, i, Null, "", inflight)
  /\ lastBody' = Null
  /\ mountRejected' = FALSE
  /\ lastEvent' = Event("Mount", "none")

\* router.query.id takes a new value while Character stays mounted
ChangeId(i) ==
  /\ mounted
  /\ i \in RouteIds
  /\ i # id
  /\ Outstanding(inflight) < MaxInflight
  /\ Commit(deps, i, character, randomFact, inflight)
  /\ lastEvent' = Event("ChangeId", "none")
  /\ UNCHANGED <<route, homeVars, lastBody, mountRejected>>

\* Character renders again with the same state and the same id
Rerender ==
  /\ mounted
  /\ Commit(deps, id, character, randomFact, inflight)
  /\ lastEvent' = Event("Rerender", "none")
  /\ UNCHANGED <<route, homeVars, lastBody, mountRejected>>

\* an outstanding request and its res.json() resolve
FetchResolve(k) ==
  /\ k \in RequestKinds
  /\ inflight[k] > 0
  /\ IF k.live
     THEN /\ Commit(deps, id, SetCharacter(character, ResponseBody(k.url)),
                    randomFact, Settle(inflight, k))
          /\ lastBody' = ResponseBody(k.url)
          /\ lastEvent' = Event("FetchResolve", "none")
          /\ UNCHANGED mountRejected
     ELSE /\ inflight' = Settle(inflight, k)
          /\ lastEvent' = Event("FetchResolveUnmounted", "none")
          /\ UNCHANGED <<id, character, randomFact, deps, lastRender, lastBody,
                         mountRejected>>
  /\ UNCHANGED <<route, homeVars>>

\* fetch (at = "fetch") or res.json() (at = "json") rejects in fetchCharacter
FetchReject(k, at) ==
  /\ k \in RequestKinds
  /\ inflight[k] > 0
  /\ inflight' = Settle(inflight, k)
  /\ character' = RejectedCharacter(character)
  /\ IF k.live
     THEN /\ mountRejected' = TRUE
          /\ lastEvent' = Event("FetchReject", at)
     ELSE /\ UNCHANGED mountRejected
          /\ lastEvent' = Event("FetchRejectUnmounted", at)
  /\ UNCHANGED <<route, homeVars, id, randomFact, deps, lastRender, lastBody>>


\* the handler also calls fetchCharacter for the current id
FetchRandomFact_Refetches ==
  /\ mounted
  /\ lastRender = "ok"
  /\ IF FactsThrows(character)
     THEN /\ lastEvent' = Event("FetchRandomFact", "TypeError")
          /\ UNCHANGED <<id, character, randomFact, deps, lastRender, inflight>>
     ELSE /\ \E n \in RandomIndices(Len(Facts(character))) :
               Commit(NoDeps, id, character,
                      At(Facts(character), n, UndefinedFact), inflight)
          /\ lastEvent' = Event("FetchRandomFact", "none")
  /\ UNCHANGED <<route, homeVars, lastBody, mountRejected>>

\* a click on "Show Random Fact", which exists once a render has succeeded
FetchRandomFact ==
  /\ mounted
  /\ lastRender = "ok"
  /\ IF FactsThrows(character)
     THEN /\ lastEvent' = Event("FetchRandomFact", "TypeError")
          /\ UNCHANGED <<id, character, randomFact, deps, lastRender, inflight>>
     ELSE /\ \E n \in RandomIndices(Len(Facts(character))) :
               Commit(deps, id, character,
                      At(Facts(character), n, UndefinedFact), inflight)
          /\ lastEvent' = Event("FetchRandomFact", "none")
  /\ UNCHANGED <<route, homeVars, lastBody, mountRejected>>

Next ==
  \/ \E r \in StaticRoutes : NavigateStatic(r)
  \/ NavigateHome
  \/ \E data \in ListResponses : HomeResolve(data)
  \/ \E at \in {"fetch", "json"} : HomeReject(at)
  \/ \E i \in RouteIds \cup {Undefined} : Mount(i)
  \/ \E i \in RouteIds : ChangeId(i)
  \/ Rerender
  \/ \E k \in RequestKinds : FetchResolve(k)
  \/ \E k \in RequestKinds, at \in {"fetch", "json"} : FetchReject(k, at)
  \/ FetchRandomFact

Spec == Init /\ [][Next]_vars

TypeOK ==
  /\ route \in StaticRoutes \cup {HomeRoute, CharacterRoute}
  /\ homeStatus \in {"idle", "pending", "rendered", "rejected"}
  /\ id \in RouteIds \cup {Undefined}
  /\ character \in Catalogue \cup {Null, NotFound}
  /\ inflight \in [RequestKinds -> 0..MaxInflight]
  /\ Outstanding(inflight) <= MaxInflight
  /\ lastRender \in {"none", "ok", "TypeError"}
  /\ mountRejected \in BOOLEAN

(* ---------------------- vocabulary of the properties ------------------- *)

\* the id under which the mock API serves a person
IdOfPerson(c) == CHOOSE p \in KnownIds : Person(p) = c

\* the four sentences of section 4.3, written out for a Character
FourFacts(c) ==
  { c.name \o " appeared in " \o ToString(Len(c.films)) \o " films.",
    c.name \o " is " \o c.height \o "cm tall.",
    c.name \o " has " \o c.eye_color \o " eyes.",
    c.name \o "'s birth year is " \o c.birth_year \o "." }

\* the request of the mounted component for a route id
LiveRequestFor(i) == Req(PeopleEndpoint \o i, TRUE)

\* the requests the mounted component issued in this step
IssuedInStep == {k \in RequestKinds : k.live /\ inflight'[k] > inflight[k]}

\* no request of the mounted component is outstanding
NoneLive == \A k \in RequestKinds : k.live => inflight[k] = 0

(* ------------------------------- C1 ------------------------------------ *)

\* C1: once Home has rendered a list response, it shows exactly one entry per
\* item of data.results, in the same order, each with the item's name and a
\* link to /character/<id> for the id the API serves that item under.
C1_OneEntryPerItem ==
  homeStatus = "rendered" =>
    /\ Len(homeLinks) = Len(people)
    /\ \A n \in 1..Len(people) :
         /\ homeLinks[n].text = people[n].name
         /\ homeLinks[n].href = CharacterHref(IdOfPerson(people[n]))

C1_Witness ==
  /\ homeStatus = "rendered"
  /\ Len(homeLinks) = 2
  /\ homeLinks[1].text = "Obi-Wan Kenobi"
  /\ homeLinks[1].href = <<"/", "c", "h", "a", "r", "a", "c", "t", "e", "r", "/", "1", "0">>
  /\ homeLinks[2].href = <<"/", "c", "h", "a", "r", "a", "c", "t", "e", "r", "/", "1">>

(* ------------------------------- C2 ------------------------------------ *)

C3_OneOfFourFacts ==
  (mounted /\ IsCharacter(character)) =>
    /\ Cardinality(FourFacts(character)) = 4
    /\ lastEvent.op = "FetchRandomFact" => randomFact \in FourFacts(character)
    /\ \A f \in FourFacts(character) : ENABLED (FetchRandomFact /\ randomFact' = f)

C3_Witness ==
  /\ mounted
  /\ character = Luke
  /\ lastEvent = Event("FetchRandomFact", "none")
  /\ randomFact = "Luke Skywalker's birth year is 19BBY."

(* ------------------------------- C4 ------------------------------------ *)

C5_CharacterIsLastResponse ==
  /\ [](mounted => character = lastBody)
  /\ [][(mounted' /\ character' # character) => lastEvent'.op = "FetchResolve"]_vars

C5_Witness ==
  /\ mounted
  /\ lastEvent.op = "FetchResolve"
  /\ character = ObiWan
  /\ lastBody = ObiWan
  /\ randomFact # ""

(* ------------------------------- C6 ------------------------------------ *)

\* C6: an activation of the random-fact button changes randomFact only: the
\* character, the route id, the outstanding requests, the route and the Home
\* page's state are as before.
C6_FactSelectorFrame ==
  [][lastEvent'.op = "FetchRandomFact" =>
       /\ character' = character
       /\ id' = id
       /\ inflight' = inflight
       /\ route' = route
       /\ homeVars' = homeVars]_vars

C6_Witness ==
  /\ lastEvent = Event("FetchRandomFact", "none")
  /\ randomFact # ""
  /\ Outstanding(inflight) > 0

(* ------------------------------- C7 ------------------------------------ *)

\* C7: a rejected fetch or JSON parse is not handled.  On the Character page
\* it leaves character and randomFact as they were, issues no request, and
\* the rejection of a mounted component's request stays on record; on the
\* Home page a rejected fetchPeople leaves no rendered list.
C7_FailureIsUnhandled ==
  /\ [][lastEvent'.op \in {"FetchReject", "FetchRejectUnmounted"} =>
          /\ character' = character
          /\ randomFact' = randomFact
          /\ IssuedInStep = {}
          /\ Outstanding(inflight') = Outstanding(inflight) - 1
          /\ lastEvent'.op = "FetchReject" => mountRejected']_vars
  /\ [](homeStatus = "rejected" => homeLinks = <<>> /\ people = <<>>)

C7_Witness ==
  /\ lastEvent.op = "FetchReject"
  /\ character = Luke
  /\ randomFact \in FourFacts(Luke)
  /\ id = <<"1", "0">>

(* ------------------------------- C8 ------------------------------------ *)

\* C8: on a mounted Character page with a defined id, once every request of
\* the mount has completed successfully, the displayed character is the body
\* the API serves for the current route id.
C8_NoStaleResponse ==
  (mounted /\ id \in RouteIds /\ NoneLive /\ ~mountRejected)
    => character = ResponseBody(PeopleEndpoint \o id)

(* ------------------------------- C9 ------------------------------------ *)

\* C9: whenever Character has rendered, character was non-null, so the render
\* read character.name from an object.
C9_NeverReadsNull ==
  mounted => (character # Null /\ lastRender = "ok")

(* ------------------------------- C10 ----------------------------------- *)

\* C10 as stated: while Character is mounted, randomFact is empty or one of the
\* four sentences of the character now displayed.
C10_FactOfDisplayedCharacter ==
  mounted =>
    \/ randomFact = ""
    \/ IsCharacter(character) /\ randomFact \in FourFacts(character)

\* C10 as amended: randomFact is empty or one of the four sentences of some
\* Character; a step changes it only by an activation of the button, to a
\* sentence of the character displayed at that activation, or by discarding
\* it with the component.  Loading another character leaves it as it was.
C10_FactOfCharacterAtActivation ==
  /\ [](randomFact = "" \/ \E c \in Catalogue : randomFact \in FourFacts(c))
  /\ [][randomFact' # randomFact =>
          \/ /\ lastEvent' = Event("FetchRandomFact", "none")
             /\ character' = character
             /\ IsCharacter(character)
             /\ randomFact' \in FourFacts(character)
          \/ ~mounted' /\ randomFact' = ""]_vars

C10_Witness ==
  /\ mounted
  /\ character = ObiWan
  /\ randomFact \in FourFacts(Luke)

====
